---------------------------- MODULE Spec2Model ----------------------------
(* A model of cljpprint.py, the Sublime Text plug-in that pipes buffer     *)
(* text through a chain of external formatter processes and maps the       *)
(* processes' stderr diagnostics back to buffer positions.                 *)
(*                                                                         *)
(* Text (str) is a sequence of code points, bytes a sequence of 0..255.    *)
EXTENDS Integers, Sequences, FiniteSets, TLC

VARIABLES
    text,         \* view id -> the view's buffer (host state)
    isopen,       \* view id -> the view is still open (host state)
    view_errors,  \* the module global view_errors: view id -> list of Error
    last,         \* what the last reformat request read, ran and showed
    outcome,      \* view id -> how the view's last reformat request ended
    nreq,         \* number of requests served so far
    pin,          \* the arguments of a direct Error.parse_stderr call
    pout          \* its result

vars == <<text, isopen, view_errors, last, outcome, nreq, pin, pout>>

(***************************************************************************)
(* Bounds of the model.                                                    *)
(***************************************************************************)
MaxRequests == 2
MaxPos == 5

(***************************************************************************)
(* Code points used below.                                                 *)
(***************************************************************************)
LF == 10
SP == 32
SLASH == 47
COLON == 58

StdinTag == <<60,115,116,100,105,110,62>>                                \* "<stdin>"
StandardInputTag == <<60,115,116,97,110,100,97,114,100,32,105,110,112,117,116,62>>  \* "<standard input>"
UnmatchedDelimiter == <<85,110,109,97,116,99,104,101,100,32,100,101,108,105,109,105,116,101,114>> \* "Unmatched delimiter"

Min(a, b) == IF a < b THEN a ELSE b
Max(a, b) == IF a > b THEN a ELSE b

StartsAt(s, p, i) ==
    /\ i + Len(p) - 1 <= Len(s)
    /\ \A k \in 1..Len(p) : s[i + k - 1] = p[k]

(***************************************************************************)
(* str.replace(old, new): non-overlapping occurrences, left to right.      *)
(***************************************************************************)
SetMin(S) == CHOOSE k \in S : \A j \in S : k <= j
SetMax(S) == CHOOSE k \in S : \A j \in S : j <= k

RECURSIVE ReplaceFrom(_, _, _, _)
RECURSIVE ReplaceAt(_, _, _, _, _)

\* occ: where old occurs in s from i on
ReplaceAt(s, old, new, i, occ) ==
    IF occ = {} THEN SubSeq(s, i, Len(s))
    ELSE SubSeq(s, i, SetMin(occ) - 1) \o new
             \o ReplaceFrom(s, old, new, SetMin(occ) + Len(old))

ReplaceFrom(s, old, new, i) ==
    ReplaceAt(s, old, new, i, {k \in i..Len(s) : StartsAt(s, old, k)})

Replace(s, old, new) == ReplaceFrom(s, old, new, 1)

(***************************************************************************)
(* str.splitlines(): the line boundaries of Python 3, "\r\n" being one     *)
(* boundary; no empty last line after a trailing boundary.                 *)
(***************************************************************************)
LineBoundaries == {10, 11, 12, 13, 28, 29, 30, 133, 8232, 8233}

RECURSIVE SplitFrom(_, _)
RECURSIVE SplitAt(_, _, _)

\* the lines of s from i on; bnd: where a boundary character stands from i on
SplitAt(s, i, bnd) ==
    IF bnd = {} THEN <<SubSeq(s, i, Len(s))>>
    ELSE <<SubSeq(s, i, SetMin(bnd) - 1)>>
             \o SplitFrom(s, IF /\ s[SetMin(bnd)] = 13 /\ SetMin(bnd) < Len(s)
                                 /\ s[SetMin(bnd) + 1] = 10
                              THEN SetMin(bnd) + 2 ELSE SetMin(bnd) + 1)

SplitFrom(s, i) ==
    IF i > Len(s) THEN <<>>
    ELSE SplitAt(s, i, {k \in i..Len(s) : s[k] \in LineBoundaries})

SplitLines(s) == SplitFrom(s, 1)

(***************************************************************************)
(* str.encode(): UTF-8, the default encoding of Command.run (line 43).     *)
(***************************************************************************)
Utf8EncodeChar(c) ==
    IF c < 128 THEN <<c>>
    ELSE IF c < 2048 THEN <<192 + (c \div 64), 128 + (c % 64)>>
    ELSE IF c < 65536 THEN <<224 + (c \div 4096), 128 + ((c \div 64) % 64), 128 + (c % 64)>>
    ELSE <<240 + (c \div 262144), 128 + ((c \div 4096) % 64), 128 + ((c \div 64) % 64), 128 + (c % 64)>>

RECURSIVE Utf8EncodeFrom(_, _)
Utf8EncodeFrom(s, i) ==
    IF i > Len(s) THEN <<>> ELSE Utf8EncodeChar(s[i]) \o Utf8EncodeFrom(s, i + 1)

\* ASCII text is its own encoding
Utf8Encode(s) == IF \A k \in 1..Len(s) : s[k] < 128 THEN s ELSE Utf8EncodeFrom(s, 1)

(***************************************************************************)
(* bytes.decode('utf-8'), strict: [ok, s]; ok is FALSE where Python raises *)
(* UnicodeDecodeError.                                                     *)
(***************************************************************************)
IsCont(b, i) == i <= Len(b) /\ b[i] >= 128 /\ b[i] <= 191

RECURSIVE Utf8DecodeFrom(_, _, _)
Utf8DecodeFrom(b, i, acc) ==
    IF i > Len(b) THEN [ok |-> TRUE, s |-> acc]
    ELSE IF b[i] < 128 THEN Utf8DecodeFrom(b, i + 1, Append(acc, b[i]))
    ELSE IF b[i] >= 194 /\ b[i] <= 223 /\ IsCont(b, i + 1)
        THEN Utf8DecodeFrom(b, i + 2, Append(acc, (b[i] - 192) * 64 + (b[i + 1] - 128)))
    ELSE IF /\ b[i] >= 224 /\ b[i] <= 239 /\ IsCont(b, i + 1) /\ IsCont(b, i + 2)
            /\ (b[i] = 224 => b[i + 1] >= 160)
            /\ (b[i] = 237 => b[i + 1] <= 159)
        THEN Utf8DecodeFrom(b, i + 3,
                 Append(acc, (b[i] - 224) * 4096 + (b[i + 1] - 128) * 64 + (b[i + 2] - 128)))
    ELSE IF /\ b[i] >= 240 /\ b[i] <= 244
            /\ IsCont(b, i + 1) /\ IsCont(b, i + 2) /\ IsCont(b, i + 3)
            /\ (b[i] = 240 => b[i + 1] >= 144)
            /\ (b[i] = 244 => b[i + 1] <= 143)
        THEN Utf8DecodeFrom(b, i + 4,
                 Append(acc, (b[i] - 240) * 262144 + (b[i + 1] - 128) * 4096
                             + (b[i + 2] - 128) * 64 + (b[i + 3] - 128)))
    ELSE [ok |-> FALSE, s |-> <<>>]

\* ASCII bytes decode to themselves
Utf8Decode(b) ==
    IF \A k \in 1..Len(b) : b[k] < 128 THEN [ok |-> TRUE, s |-> b]
    ELSE Utf8DecodeFrom(b, 1, <<>>)

(***************************************************************************)
(* bytes.decode('UTF-16 LE'): Python normalises the name to utf_16_le.     *)
(* Two bytes a code unit, low byte first; an odd length or a surrogate     *)
(* code unit without its pair raises UnicodeDecodeError.                   *)
(***************************************************************************)
RECURSIVE Utf16LeDecodeFrom(_, _, _)
Utf16LeDecodeFrom(b, i, acc) ==
    IF i > Len(b) THEN [ok |-> TRUE, s |-> acc]
    ELSE IF i = Len(b) THEN [ok |-> FALSE, s |-> <<>>]
    ELSE LET u == b[i] + 256 * b[i + 1] IN
         IF u >= 55296 /\ u <= 57343
         THEN IF /\ u <= 56319 /\ i + 3 <= Len(b)
                 /\ b[i + 2] + 256 * b[i + 3] >= 56320
                 /\ b[i + 2] + 256 * b[i + 3] <= 57343
              THEN Utf16LeDecodeFrom(b, i + 4,
                       Append(acc, 65536 + (u - 55296) * 1024
                                   + (b[i + 2] + 256 * b[i + 3] - 56320)))
              ELSE [ok |-> FALSE, s |-> <<>>]
         ELSE Utf16LeDecodeFrom(b, i + 2, Append(acc, u))

Utf16LeDecode(b) == Utf16LeDecodeFrom(b, 1, <<>>)

(***************************************************************************)
(* bytes.decode(encoding) for the encoding names view.encoding() returns.  *)
(* A name that is no Python codec name, such as "Western (Windows 1252)",  *)
(* raises LookupError.                                                     *)
(***************************************************************************)
Decode(b, enc) ==
    LET d == CASE enc \in {"UTF-8", "utf-8"} -> Utf8Decode(b)
               [] enc = "UTF-16 LE" -> Utf16LeDecode(b)
               [] OTHER -> [ok |-> FALSE, s |-> <<>>]
    IN  [raised |-> IF d.ok THEN ""
                    ELSE IF enc \in {"UTF-8", "utf-8", "UTF-16 LE"} THEN "UnicodeDecodeError"
                    ELSE "LookupError",
         s |-> d.s]

(***************************************************************************)
(* int(digits) for a non-empty run of ASCII digits.                        *)
(***************************************************************************)
IsDigit(c) == c >= 48 /\ c <= 57
IsSpace(c) == c \in {9, 10, 11, 12, 13, 28, 29, 30, 31, 32, 133, 160}

RECURSIVE IntOf(_)
IntOf(d) == IF d = <<>> THEN 0 ELSE 10 * IntOf(SubSeq(d, 1, Len(d) - 1)) + (d[Len(d)] - 48)

\* the end (exclusive) of the longest run of digits (\d+) from i on
DigitsEnd(s, i) == SetMin({k \in i..(Len(s) + 1) : k > Len(s) \/ ~IsDigit(s[k])})

\* the end (exclusive) of the longest run of whitespace (\s+) from i on
SpaceEnd(s, i) == SetMin({k \in i..(Len(s) + 1) : k > Len(s) \/ ~IsSpace(s[k])})

(***************************************************************************)
(* Error.line_re.match(raw_text), anchored at the start: the tag <stdin>,  *)
(* ':', digits (group 1), ':', digits (group 2), ':', one or more          *)
(* whitespace, then any rest without "\n" up to the end (group 3). The     *)
(* digit and whitespace runs are greedy and no shorter run can match,      *)
(* because ':' is no digit and the rest takes any character but "\n".      *)
(***************************************************************************)
NoMatch == [matched |-> FALSE, g1 |-> <<>>, g2 |-> <<>>, g3 |-> <<>>]

\* e1, e2, e3: where the row's digits, the col's digits and the whitespace end
LineReGroups(raw, p1, e1, e2, e3) ==
    IF /\ StartsAt(raw, StdinTag \o <<COLON>>, 1)
       /\ e1 > p1 /\ e1 <= Len(raw) /\ raw[e1] = COLON
       /\ e2 > e1 + 1 /\ e2 <= Len(raw) /\ raw[e2] = COLON
       /\ e3 > e2 + 1
       /\ \A k \in e3..Len(raw) : raw[k] # LF
    THEN [matched |-> TRUE, g1 |-> SubSeq(raw, p1, e1 - 1),
          g2 |-> SubSeq(raw, e1 + 1, e2 - 1), g3 |-> SubSeq(raw, e3, Len(raw))]
    ELSE NoMatch

LineReCol(raw, p1, e1, e2) == LineReGroups(raw, p1, e1, e2, SpaceEnd(raw, e2 + 1))

LineReRow(raw, p1, e1) == LineReCol(raw, p1, e1, DigitsEnd(raw, e1 + 1))

line_re(raw) == LineReRow(raw, Len(StdinTag) + 2, DigitsEnd(raw, Len(StdinTag) + 2))

(***************************************************************************)
(* The host editor's view API on a buffer buf (a sequence of code points,  *)
(* offsets from 0).                                                        *)
(***************************************************************************)
Region(a, b) == [a |-> a, b |-> b]
begin(r) == Min(r.a, r.b)
end(r) == Max(r.a, r.b)
Clamp(p, n) == Max(0, Min(p, n))

\* view.substr(region)
substr(buf, r) == SubSeq(buf, Clamp(begin(r), Len(buf)) + 1, Clamp(end(r), Len(buf)))

\* view.replace(edit, region, s)
replace(buf, r, s) ==
    SubSeq(buf, 1, Clamp(begin(r), Len(buf))) \o s
        \o SubSeq(buf, Clamp(end(r), Len(buf)) + 1, Len(buf))

\* view.rowcol(point)
rowcol(buf, point) ==
    LET p == Clamp(point, Len(buf))
        nl == {k \in 1..p : buf[k] = LF}
        start == IF nl = {} THEN 0 ELSE SetMax(nl)
    IN  [row |-> Cardinality(nl), col |-> p - start]

\* view.text_point(row, col)
text_point(buf, row, col) ==
    LET nl == {k \in 1..Len(buf) : buf[k] = LF}
        starts == {0} \cup nl                 \* offsets at which a line starts
    IN  IF row < 0 THEN 0
        ELSE IF row >= Cardinality(starts) THEN Len(buf)
        ELSE LET s == CHOOSE k \in starts : Cardinality({j \in starts : j < k}) = row
             IN  Clamp(s + col, Len(buf))

\* view.line(point).end()
line_end(buf, point) ==
    LET p == Clamp(point, Len(buf))
        nl == {k \in (p + 1)..Len(buf) : buf[k] = LF}
    IN  IF nl = {} THEN Len(buf) ELSE SetMin(nl) - 1

(***************************************************************************)
(* view.file_name(): None for a buffer never saved.                        *)
(***************************************************************************)
NoFile == [isNone |-> TRUE, name |-> <<>>]
File(n) == [isNone |-> FALSE, name |-> n]

\* os.path.basename(p): what follows the last '/'
basename(p) ==
    LET sl == {k \in 1..Len(p) : p[k] = SLASH}
    IN  IF sl = {} THEN p ELSE SubSeq(p, SetMax(sl) + 1, Len(p))


(***************************************************************************)
(* Error.parse_stderr, lines 74-82: the Error of one matching line, row0   *)
(* and col0 being the line's position less one.                            *)
(***************************************************************************)
ErrorAt(g3, row, col, a, buf, fn) ==
    [text |-> g3, region |-> Region(a, line_end(buf, a)), row |-> row, col |-> col,
     filename |-> fn]

\* a variant that offsets the column on every row
ErrorOfPositionAlwaysOffset(g3, row0, col0, region_row, region_col, buf, fn) ==
    LET col == col0 + region_col
        row == row0 + region_row
    IN  ErrorAt(g3, row, col, text_point(buf, row, col), buf, fn)

ErrorOfPosition(g3, row0, col0, region_row, region_col, buf, fn) ==
    LET col == IF row0 = 0 THEN col0 + region_col ELSE col0
        row == row0 + region_row
    IN  ErrorAt(g3, row, col, text_point(buf, row, col), buf, fn)

\* a variant that keeps the diagnostic's 1-based row
ErrorOfMatchOneBased(m, region_row, region_col, buf, fn) ==
    ErrorOfPosition(m.g3, IntOf(m.g1), IntOf(m.g2) - 1, region_row, region_col, buf, fn)

ErrorOfMatch(m, region_row, region_col, buf, fn) ==
    ErrorOfPosition(m.g3, IntOf(m.g1) - 1, IntOf(m.g2) - 1, region_row, region_col, buf, fn)

\* lines 71-82 for one line of stderr: the errors list extended or not
ErrorsOfLine(m, region_row, region_col, buf, fn) ==
    IF m.matched THEN <<ErrorOfMatch(m, region_row, region_col, buf, fn)>> ELSE <<>>

RECURSIVE ErrorsOfLines(_, _, _, _, _)
ErrorsOfLines(lines, region_row, region_col, buf, fn) ==
    IF lines = <<>> THEN <<>>
    ELSE ErrorsOfLine(line_re(Head(lines)), region_row, region_col, buf, fn)
             \o ErrorsOfLines(Tail(lines), region_row, region_col, buf, fn)

(***************************************************************************)
(* Error.parse_stderr(stderr, region, view), stderr being the bytes a      *)
(* process wrote. raised names the exception that leaves it, "" if none.   *)
(***************************************************************************)
ParseDecoded(dec, rc, buf, file_name) ==
    IF ~dec.ok THEN [raised |-> "UnicodeDecodeError", errors |-> <<>>]
    ELSE IF file_name.isNone THEN [raised |-> "TypeError", errors |-> <<>>]
    ELSE [raised |-> "",
          errors |-> ErrorsOfLines(
                         SplitLines(Replace(dec.s, StandardInputTag, basename(file_name.name))),
                         rc.row, rc.col, buf, basename(file_name.name))]

parse_stderr(stderr, region, buf, file_name) ==
    ParseDecoded(Utf8Decode(stderr), rowcol(buf, begin(region)), buf, file_name)

(***************************************************************************)
(* The external processes (opaque collaborators): what each installed      *)
(* program does with its standard input. diag is what a program that       *)
(* reports writes to standard error.                                       *)
(***************************************************************************)
Programs == {"cat", "joker", "lint", "false"}

RParen == 41

RECURSIVE StripLeft(_)
StripLeft(b) == IF b # <<>> /\ Head(b) = SP THEN StripLeft(Tail(b)) ELSE b

RECURSIVE StripRight(_)
StripRight(b) ==
    IF b # <<>> /\ b[Len(b)] = SP THEN StripRight(SubSeq(b, 1, Len(b) - 1)) ELSE b

EndLine(t) == IF t # <<>> /\ t[Len(t)] = LF THEN t ELSE Append(t, LF)

\* a formatter's output: the input without outer blanks, ending in a newline
Reformat(b) == EndLine(StripRight(StripLeft(b)))

Process(program, stdin, diag) ==
    CASE program = "cat" -> [stdout |-> stdin, stderr |-> <<>>, returncode |-> 0]
      [] program = "joker" ->
            IF \E k \in 1..Len(stdin) : stdin[k] = RParen
            THEN [stdout |-> <<>>, stderr |-> diag, returncode |-> 1]
            ELSE [stdout |-> Reformat(stdin), stderr |-> <<>>, returncode |-> 0]
      [] program = "lint" -> [stdout |-> stdin, stderr |-> diag, returncode |-> 0]
      [] OTHER -> [stdout |-> <<>>, stderr |-> <<>>, returncode |-> 1]

(***************************************************************************)
(* A value of the cmds list: an argument vector, or a bare string (which   *)
(* Popen takes as the program to run without arguments).                   *)
(***************************************************************************)
ArgV(v) == [isStr |-> FALSE, argv |-> v]
Str(s) == [isStr |-> TRUE, argv |-> <<s>>]

\* the value of the variable code in Formatter.format: a str or bytes
StrVal(t) == [isStr |-> TRUE, v |-> t]
BytesVal(b) == [isStr |-> FALSE, v |-> b]

\* Command.run, lines 39-45: Popen raises OSError when the program does not exist
Popen(cmd, input, diag) ==
    IF cmd.argv[1] \notin Programs
    THEN [raised |-> "OSError", stdin |-> input, stdout |-> <<>>, stderr |-> <<>>,
          returncode |-> 0]
    ELSE [raised |-> "", stdin |-> input] @@ Process(cmd.argv[1], input, diag)

\* Command.run(stdin): a str is encoded first, lines 42-43
Command_run(cmd, stdin, diag) ==
    Popen(cmd, IF stdin.isStr THEN Utf8Encode(stdin.v) ELSE stdin.v, diag)

(***************************************************************************)
(* Formatter.__init__, lines 97-102.                                       *)
(***************************************************************************)
DefaultCmds == <<Str("joker"), Str("--format"), Str("-")>>

\* settings.get('cmds', default) or []
SettingsCmds(setting) == IF setting.present THEN setting.value ELSE DefaultCmds

CommandsOf(cmds) == [i \in 1..Len(cmds) |-> [cmd |-> cmds[i]]]

Formatter_cmds(setting) == CommandsOf(SettingsCmds(setting))

Formatter_encoding(enc) == IF enc = "Undefined" THEN "utf-8" ELSE enc

(***************************************************************************)
(* Formatter.format, the loop of lines 107-112: the commands from the i-th *)
(* on, code being the value piped in. runs lists the processes run.        *)
(***************************************************************************)
RunOf(r, cmd) ==
    [cmd |-> cmd, stdin |-> r.stdin, stdout |-> r.stdout, stderr |-> r.stderr,
     returncode |-> r.returncode]

RECURSIVE RunChain(_, _, _, _, _)
RECURSIVE RunChainAfter(_, _, _, _, _)

RunChain(cmds, i, code, diag, runs) ==
    IF i > Len(cmds) THEN [kind |-> "done", code |-> code, runs |-> runs]
    ELSE RunChainAfter(cmds, i, Command_run(cmds[i].cmd, code, diag), diag, runs)

\* r is what the i-th command's run returned or raised
RunChainAfter(cmds, i, r, diag, runs) ==
    IF r.raised # "" THEN [kind |-> r.raised, code |-> BytesVal(<<>>), runs |-> runs]
    ELSE IF r.stderr # <<>> \/ r.returncode # 0
    THEN [kind |-> "failed", code |-> BytesVal(r.stdout), runs |-> Append(runs, RunOf(r, cmds[i].cmd))]
    ELSE RunChain(cmds, i + 1, BytesVal(r.stdout), diag, Append(runs, RunOf(r, cmds[i].cmd)))

(***************************************************************************)
(* Formatter.format(region) on the buffer buf. kind is "return",           *)
(* "FormatterError" or the name of another exception that leaves format.   *)
(* status, marks and panel are what format leaves in the view's status     *)
(* bar, its 'cljpprint' regions and the output panel.                      *)
(***************************************************************************)
FormatBase(region, code, runs) ==
    [kind |-> "", region |-> region, code |-> code, runs |-> runs, value |-> <<>>,
     errors |-> <<>>, status |-> "", marks |-> <<>>, panel |-> "untouched"]

\* lines 110-112, p being what parse_stderr returned or raised
FormatFailed(base, p) ==
    IF p.raised # "" THEN [base EXCEPT !.kind = p.raised]
    ELSE [base EXCEPT !.kind = "FormatterError",
                      !.errors = p.errors,
                      !.status = "failed",
                      !.marks = [k \in 1..Len(p.errors) |-> p.errors[k].region],
                      !.panel = "shown"]

\* lines 113-114, d being what code.decode returned or raised
FormatDecoded(base, d) ==
    IF d.raised # "" THEN [base EXCEPT !.kind = d.raised, !.panel = "hidden"]
    ELSE [base EXCEPT !.kind = "return", !.value = d.s, !.panel = "hidden"]

\* c is the outcome of the loop over the commands
FormatAfter(c, base, buf, region, encoding, file_name) ==
    IF c.kind = "failed"
    THEN FormatFailed(base, parse_stderr(c.runs[Len(c.runs)].stderr, region, buf, file_name))
    ELSE IF c.kind # "done" THEN [base EXCEPT !.kind = c.kind]
    ELSE IF c.code.isStr THEN [base EXCEPT !.kind = "AttributeError", !.panel = "hidden"]
    ELSE FormatDecoded(base, Decode(c.code.v, encoding))

FormatCode(c, code, buf, region, encoding, file_name) ==
    FormatAfter(c, FormatBase(region, code, c.runs), buf, region, encoding, file_name)

FormatChain(code, buf, region, cmds, encoding, file_name, diag) ==
    FormatCode(RunChain(cmds, 1, StrVal(code), diag, <<>>), code, buf, region,
               encoding, file_name)

Formatter_format(buf, region, cmds, encoding, file_name, diag) ==
    FormatChain(substr(buf, region), buf, region, cmds, encoding, file_name, diag)

(***************************************************************************)
(* run_formatter, the loop of lines 154-155 from the k-th region on: each  *)
(* region is formatted and replaced in turn; an exception ends the loop.   *)
(***************************************************************************)
RECURSIVE FormatRegions(_, _, _, _, _, _, _, _)
RECURSIVE FormatRegionsAfter(_, _, _, _, _, _, _, _, _)

FormatRegions(buf, regions, k, cmds, encoding, file_name, diag, fmts) ==
    IF k > Len(regions)
    THEN [buf |-> buf, kind |-> "ok", errors |-> <<>>, fmts |-> fmts]
    ELSE FormatRegionsAfter(
             Formatter_format(buf, regions[k], cmds, encoding, file_name, diag),
             buf, regions, k, cmds, encoding, file_name, diag, fmts)

\* f is what formatter.format(regions[k]) returned or raised
FormatRegionsAfter(f, buf, regions, k, cmds, encoding, file_name, diag, fmts) ==
    IF f.kind = "return"
    THEN FormatRegions(replace(buf, regions[k], f.value), regions, k + 1,
                       cmds, encoding, file_name, diag, Append(fmts, f))
    ELSE [buf |-> buf, kind |-> f.kind, errors |-> f.errors, fmts |-> Append(fmts, f)]

\* del view_errors[id]
Without(ve, v) == [x \in (DOMAIN ve) \ {v} |-> ve[x]]

\* view_errors[id] = errors
With(ve, v, errors) == [x \in (DOMAIN ve) \cup {v} |-> IF x = v THEN errors ELSE ve[x]]

(***************************************************************************)
(* run_formatter(edit, view, regions): the buffer and view_errors after    *)
(* it, and whether sublime.error_message was called (modal).               *)
(***************************************************************************)
\* lines 156-159, r being the outcome of the loop over the regions
RunFormatterAfter(r, ve, v, cmds) ==
    [buf |-> r.buf,
     cmds |-> cmds,
     kind |-> r.kind,
     fmts |-> r.fmts,
     view_errors |-> IF r.kind = "FormatterError" THEN With(ve, v, r.errors) ELSE ve,
     modal |-> r.kind \notin {"ok", "FormatterError"}]

run_formatter(ve, v, buf, regions, setting, enc, file_name, diag) ==
    RunFormatterAfter(
        FormatRegions(buf, regions, 1, Formatter_cmds(setting), Formatter_encoding(enc),
                      file_name, diag, <<>>),
        Without(ve, v), v, Formatter_cmds(setting))

(***************************************************************************)
(* CljpprintCommand.run, lines 170-174: the regions to format.             *)
(***************************************************************************)
NonEmptyRegion(r) == begin(r) # end(r)

RegionsOrAll(regions, size) == IF regions # <<>> THEN regions ELSE <<Region(0, size)>>

\* a variant that keeps the empty selections
CommandRegionsUnfiltered(format_selected, sel, size) ==
    RegionsOrAll(IF format_selected THEN sel ELSE <<>>, size)

CommandRegions(format_selected, sel, size) ==
    RegionsOrAll(IF format_selected THEN SelectSeq(sel, NonEmptyRegion) ELSE <<>>, size)

(***************************************************************************)
(* The host editor: three views of Clojure source. View 1 is a saved       *)
(* UTF-8 file, view 2 a buffer never saved, view 3 a saved UTF-16 LE file. *)
(***************************************************************************)
Views == 1..3

CoreClj == <<47,112,47,99,111,114,101,46,99,108,106>>       \* "/p/core.clj"
DataEdn == <<47,112,47,100,46,101,100,110>>                 \* "/p/d.edn"

\* view.file_name()
view_file_name(v) == CASE v = 1 -> File(CoreClj) [] v = 2 -> NoFile [] OTHER -> File(DataEdn)

\* view.encoding()
view_encoding(v) == CASE v = 1 -> "UTF-8" [] v = 2 -> "Undefined" [] OTHER -> "UTF-16 LE"

InitialText == <<32,97,10,98,32,41>>                        \* " a\nb )"

(***************************************************************************)
(* What a request reads from its environment: the settings, the selection  *)
(* and what a reporting process writes to standard error.                  *)
(***************************************************************************)
Joker == ArgV(<<"joker", "--format", "-">>)
Cat == ArgV(<<"cat">>)

CmdsSettings ==
    { [present |-> FALSE, value |-> <<>>],
      [present |-> TRUE, value |-> <<>>],
      [present |-> TRUE, value |-> <<Cat>>],
      [present |-> TRUE, value |-> <<Joker>>],
      [present |-> TRUE, value |-> <<Cat, Joker>>],
      [present |-> TRUE, value |-> <<Joker, Cat>>],
      [present |-> TRUE, value |-> <<ArgV(<<"lint">>), Cat>>],
      [present |-> TRUE, value |-> <<ArgV(<<"false">>)>>] }

Selections ==
    { <<Region(0, 0)>>,
      <<Region(1, 2)>>,
      <<Region(4, 3)>>,
      <<Region(3, 6)>>,
      <<Region(1, 2), Region(3, 4)>>,
      <<Region(0, 1), Region(5, 6)>>,
      <<Region(0, 0), Region(3, 4)>>,
      <<Region(2, 2), Region(4, 4)>> }

Line(tag, r, c, sep, msg) == tag \o <<COLON>> \o r \o <<COLON>> \o c \o <<COLON>> \o sep \o msg

Diags ==
    { <<>>,
      Line(StdinTag, <<49>>, <<50>>, <<SP>>, <<120>>) \o <<LF>>,
      Line(StdinTag, <<50>>, <<49>>, <<SP>>, UnmatchedDelimiter) \o <<LF>>
          \o <<63, 63>> \o <<LF>>
          \o Line(StandardInputTag, <<49>>, <<49>>, <<SP>>, <<121>>) }

NoRequest ==
    [kind |-> "none", view |-> 0, pre |-> <<>>, had |-> FALSE, setting |-> [present |-> FALSE, value |-> <<>>],
     format_selected |-> FALSE, sel |-> <<>>, diag |-> <<>>, regions |-> <<>>,
     cmds |-> <<>>, fmts |-> <<>>, modal |-> FALSE]

(***************************************************************************)
(* A direct call of Error.parse_stderr: the process wrote a first line of  *)
(* the shape tag:r:c:<sep>msg and then more; the region starts at row R,   *)
(* column C of the buffer, which was saved to a file or never was.         *)
(***************************************************************************)
RECURSIVE Digits(_)
Digits(n) == IF n < 10 THEN <<48 + n>> ELSE Digits(n \div 10) \o <<48 + (n % 10)>>

Positions == (0..MaxPos) \cup {12}

OtherTag == <<99,111,114,101,46,99,108,106>>                 \* "core.clj"

MoreLines ==
    { <<>>,
      <<LF, 63, 63>>,
      <<LF>> \o Line(StdinTag, <<50>>, <<50>>, <<SP>>, <<122>>) \o <<LF>> }

ParseInputs ==
    [tag : {StdinTag, StandardInputTag, OtherTag},
     r : Positions, c : Positions,
     sep : {<<SP>>, <<>>, <<9, SP>>},
     msg : {<<120>>, UnmatchedDelimiter},
     more : MoreLines,
     R : {0, 1, 10}, C : {0, 2},
     saved : BOOLEAN]

NoParse ==
    [tag |-> <<>>, r |-> 0, c |-> 0, sep |-> <<>>, msg |-> <<>>, more |-> <<>>,
     R |-> 0, C |-> 0, saved |-> FALSE]

ParseStderrOf(p) == Line(p.tag, Digits(p.r), Digits(p.c), p.sep, p.msg) \o p.more

\* a buffer of R empty lines, then a line of C characters and "(b"
ParseBufOf(p) == [k \in 1..p.R |-> LF] \o [k \in 1..p.C |-> 97] \o <<40, 98>>

ParseRegionOf(p) == Region(p.R + p.C, p.R + p.C + 2)

ParseFileOf(p) == IF p.saved THEN File(CoreClj) ELSE NoFile

NotCalled == [called |-> FALSE, raised |-> "", errors |-> <<>>]

Init ==
    /\ text = [v \in Views |-> InitialText]
    /\ isopen = [v \in Views |-> TRUE]
    /\ view_errors = << >>
    /\ last = NoRequest
    /\ outcome = [v \in Views |-> "none"]
    /\ nreq = 0
    /\ pin = NoParse
    /\ pout = NotCalled

(***************************************************************************)
(* CljpprintCommand.run on a view of Clojure source, with what it reads.   *)
(***************************************************************************)
Commit(v, setting, format_selected, sel, diag, regions, r) ==
    /\ text' = [text EXCEPT ![v] = r.buf]
    /\ view_errors' = r.view_errors
    /\ last' = [kind |-> r.kind, view |-> v, pre |-> text[v],
                had |-> v \in DOMAIN view_errors, setting |-> setting,
                format_selected |-> format_selected, sel |-> sel, diag |-> diag,
                regions |-> regions, cmds |-> r.cmds, fmts |-> r.fmts,
                modal |-> r.modal]
    /\ outcome' = [outcome EXCEPT ![v] = r.kind]
    /\ nreq' = nreq + 1
    /\ UNCHANGED <<isopen, pin, pout>>

RequestOn(v, setting, format_selected, sel, diag, regions) ==
    Commit(v, setting, format_selected, sel, diag, regions,
           run_formatter(view_errors, v, text[v], regions, setting,
                         view_encoding(v), view_file_name(v), diag))

Request(v, setting, format_selected, sel, diag) ==
    RequestOn(v, setting, format_selected, sel, diag,
              CommandRegions(format_selected, sel, Len(text[v])))

InBuffer(sel, buf) == \A k \in 1..Len(sel) : end(sel[k]) <= Len(buf)

CljpprintRun(v) ==
    \E setting \in CmdsSettings, diag \in Diags, format_selected \in BOOLEAN :
        \E sel \in (IF format_selected THEN {x \in Selections : InBuffer(x, text[v])}
                                         ELSE {<<>>}) :
            Request(v, setting, format_selected, sel, diag)

\* the user invokes the "cljpprint" text command
Cljpprint ==
    \E v \in Views : isopen[v] /\ nreq < MaxRequests /\ CljpprintRun(v)

\* CljpprintCommand.run, lines 165-166: not Clojure or EDN source
CljpprintNotClojure ==
    \E v \in Views : isopen[v] /\ nreq < MaxRequests /\ UNCHANGED vars

\* on_pre_save with format_on_save set (the default)
OnPreSave ==
    \E v \in Views : isopen[v] /\ nreq < MaxRequests /\ CljpprintRun(v)

\* on_pre_save with format_on_save false, lines 201-202
OnPreSaveOff ==
    \E v \in Views : isopen[v] /\ nreq < MaxRequests /\ UNCHANGED vars

\* the host closes a view: the plug-in has no handler for it
Close ==
    \E v \in Views :
        /\ isopen[v]
        /\ nreq < MaxRequests
        /\ isopen' = [isopen EXCEPT ![v] = FALSE]
        /\ nreq' = nreq + 1
        /\ UNCHANGED <<text, view_errors, last, outcome, pin, pout>>

Next == Cljpprint \/ CljpprintNotClojure \/ OnPreSave \/ OnPreSaveOff \/ Close

Spec == Init /\ [][Next]_vars


(***************************************************************************)
(* Error.parse_stderr called on its own.                                   *)
(***************************************************************************)
InitParse ==
    /\ text = [v \in Views |-> InitialText]
    /\ isopen = [v \in Views |-> TRUE]
    /\ view_errors = << >>
    /\ last = NoRequest
    /\ outcome = [v \in Views |-> "none"]
    /\ nreq = 0
    /\ pin \in ParseInputs
    /\ pout = NotCalled

ParseStderr ==
    /\ ~pout.called
    /\ pout' = [called |-> TRUE]
                   @@ parse_stderr(ParseStderrOf(pin), ParseRegionOf(pin), ParseBufOf(pin),
                                   ParseFileOf(pin))
    /\ UNCHANGED <<text, isopen, view_errors, last, outcome, nreq, pin>>

NextParse == ParseStderr

SpecParse == InitParse /\ [][NextParse]_vars

(***************************************************************************)
(* The reformat command alone, with the formatter pipelines of one or two  *)
(* commands and any selection.                                             *)
(***************************************************************************)
SelectCmds ==
    { [present |-> TRUE, value |-> <<Joker>>],
      [present |-> TRUE, value |-> <<Cat, Joker>>] }

SelectDiag == Line(StdinTag, <<49>>, <<50>>, <<SP>>, <<120>>) \o <<LF>>

CljpprintSelect ==
    \E v \in Views, setting \in SelectCmds, format_selected \in BOOLEAN :
        \E sel \in (IF format_selected THEN {x \in Selections : InBuffer(x, text[v])}
                                         ELSE {<<>>}) :
            /\ isopen[v]
            /\ nreq < MaxRequests
            /\ Request(v, setting, format_selected, sel, SelectDiag)

NextSelect == CljpprintSelect

SpecSelect == Init /\ [][NextSelect]_vars


(***************************************************************************)
(*                               Properties                                *)
(***************************************************************************)

\* the Errors that parse_stderr made of the first line of its input
FirstLineErrors == {k \in 1..Len(pout.errors) : pout.errors[k].text = pin.msg}

\* C1: for every line parse_stderr accepts, with the 1-based position (r, c) and
\* a region starting at the buffer position (R, C), the Error has
\* row = R + (r - 1), col = (c - 1) + C when r = 1 and col = c - 1 when r > 1.
C1_Position ==
    pout.called =>
        \A k \in FirstLineErrors :
            /\ pout.errors[k].row = pin.R + (pin.r - 1)
            /\ (pin.r = 1 => pout.errors[k].col = (pin.c - 1) + pin.C)
            /\ (pin.r > 1 => pout.errors[k].col = pin.c - 1)

\* C1: a line on the first row of a region starting at column 2 was accepted
C1_Witness ==
    /\ pout.called
    /\ FirstLineErrors # {}
    /\ pin.r = 1 /\ pin.c = 5 /\ pin.R = 10 /\ pin.C = 2
    /\ pout.errors[1].col = 6

\* the call of the example: the line tag:3:5: Unmatched delimiter alone, the
\* region starting at row 10, column 0
ExampleCall(tag) ==
    /\ pout.called
    /\ pin.tag = tag /\ pin.r = 3 /\ pin.c = 5 /\ pin.sep = <<SP>>
    /\ pin.msg = UnmatchedDelimiter /\ pin.more = <<>>
    /\ pin.R = 10 /\ pin.C = 0

Requested == last.kind # "none"

Failed(run) == run.stderr # <<>> \/ run.returncode # 0

\* some command of the last request failed
SomeFailed ==
    \E i \in 1..Len(last.fmts) :
        \E j \in 1..Len(last.fmts[i].runs) : Failed(last.fmts[i].runs[j])

LastEncoding == Formatter_encoding(view_encoding(last.view))

\* C3: format runs the commands in order, the first on the region's text and
\* each later one on the previous command's output; once a command exits non-zero
\* or writes to standard error no later command runs and format raises
\* FormatterError; format returns the last command's output only when every
\* command exited 0 with empty stderr.
C3_Chain ==
    Requested =>
        \A i \in 1..Len(last.fmts) :
            /\ Len(last.fmts[i].runs) <= Len(last.cmds)
            /\ \A j \in 1..Len(last.fmts[i].runs) :
                   /\ last.fmts[i].runs[j].cmd = last.cmds[j].cmd
                   /\ last.fmts[i].runs[j].stdin =
                          IF j = 1 THEN Utf8Encode(last.fmts[i].code)
                          ELSE last.fmts[i].runs[j - 1].stdout
                   /\ Failed(last.fmts[i].runs[j]) =>
                          /\ j = Len(last.fmts[i].runs)
                          /\ last.fmts[i].kind = "FormatterError"
            /\ last.fmts[i].kind = "return" =>
                   /\ Len(last.fmts[i].runs) = Len(last.cmds)
                   /\ Len(last.cmds) > 0
                   /\ \A j \in 1..Len(last.fmts[i].runs) : ~Failed(last.fmts[i].runs[j])
                   /\ last.fmts[i].value =
                          Decode(last.fmts[i].runs[Len(last.cmds)].stdout, LastEncoding).s

\* C4: if some command fails during a request, the buffer after the request
\* equals the buffer before it.
C4_NoPartialChange ==
    Requested /\ SomeFailed => text[last.view] = last.pre

IdentityChain ==
    /\ last.setting.present
    /\ last.setting.value # <<>>
    /\ \A i \in 1..Len(last.setting.value) : last.setting.value[i] = Cat

\* C5: a request whose every command is an identity passthrough leaves the
\* buffer unchanged and leaves no stored errors for the view.
C5_RoundTrip ==
    Requested /\ IdentityChain =>
        /\ text[last.view] = last.pre
        /\ last.view \notin DOMAIN view_errors

MatchedLine(l) == line_re(l).matched

\* the messages of the matching lines of the failing command's stderr, in order
FailingMessages ==
    LET f == last.fmts[Len(last.fmts)]
        lines == SelectSeq(SplitLines(f.runs[Len(f.runs)].stderr), MatchedLine)
    IN  [k \in 1..Len(lines) |-> line_re(lines[k]).g3]

\* C6: whenever a command fails during a request on a view, saved or not, the
\* request ends with view_errors[view.id()] holding exactly the Errors parsed
\* from the failing command's stderr, one per matching line in order, and
\* without the modal error message.
C6_Recorded ==
    Requested /\ SomeFailed =>
        /\ ~last.modal
        /\ last.view \in DOMAIN view_errors
        /\ view_errors[last.view] = last.fmts[Len(last.fmts)].errors
        /\ [k \in 1..Len(view_errors[last.view]) |-> view_errors[last.view][k].text]
               = FailingMessages

\* C7: view_errors holds an entry for a view only between a failed format of
\* the view and the next format attempt on it or its closure; a closed view has
\* no entry.
C7_Discarded ==
    \A v \in Views :
        v \in DOMAIN view_errors => isopen[v] /\ outcome[v] = "FormatterError"

\* C9: when the cmds setting is absent the pipeline is the single command
\* joker --format -, and one process runs per formatted region.
C9_DefaultPipeline ==
    Requested /\ ~last.setting.present =>
        /\ Len(last.cmds) = 1
        /\ last.cmds[1].cmd = Joker
        /\ \A i \in 1..Len(last.fmts) : Len(last.fmts[i].runs) = 1

\* buf with each of the (ascending, disjoint) regions replaced by its value
RECURSIVE Stitch(_, _, _, _)
Stitch(buf, regions, vals, k) ==
    IF k = 0 THEN buf
    ELSE Stitch(SubSeq(buf, 1, begin(regions[k])) \o vals[k]
                    \o SubSeq(buf, end(regions[k]) + 1, Len(buf)),
                regions, vals, k - 1)

\* what the last request put in place of each region: the formatter's output,
\* the region's own text where none was returned
LastValues ==
    [i \in 1..Len(last.regions) |->
        IF i <= Len(last.fmts) /\ last.fmts[i].kind = "return"
        THEN last.fmts[i].value
        ELSE SubSeq(last.pre, begin(last.regions[i]) + 1, end(last.regions[i]))]

\* every region was read as it stood when the request started, and only the
\* regions were replaced
LastFrame ==
    /\ \A i \in 1..Len(last.fmts) :
           last.fmts[i].code =
               SubSeq(last.pre, begin(last.regions[i]) + 1, end(last.regions[i]))
    /\ text[last.view] = Stitch(last.pre, last.regions, LastValues, Len(last.regions))

\* C10: when a request covers several regions and every command succeeds, each
\* region is replaced by the output for the text it held when the request
\* started, and text outside the regions is unchanged.
C10_SeveralRegions ==
    Requested /\ last.kind = "ok" /\ Len(last.regions) >= 2 => LastFrame

IsNonEmpty(r) == r.a # r.b

=============================================================================
